---- MODULE Spec2Model ----
(***************************************************************************)
(* Zeyphr voice front end: the channel manager of src/src/socket-enhanced.ts *)
(* and the session / turn-taking logic of the App component of             *)
(* src/src/App.tsx, as one state machine.                                  *)
(*                                                                         *)
(* Everything runs on one event loop, so every handler is one atomic step. *)
(* A React state setter takes effect with the re-render that follows the   *)
(* handler; a callback reads the state values of the render that created   *)
(* it (its closure), while refs (xxxRef.current) and the module-level      *)
(* variables of socket-enhanced.ts are read live.  Closures are modelled   *)
(* explicitly: a Closure record holds the four state values a callback     *)
(* captured.                                                               *)
(***************************************************************************)
EXTENDS Integers, Sequences, FiniteSets, TLC

\* ------------------------------------------------------------------ bounds
MaxAcquire == 2      \* initSocket() calls, and disconnect() calls, explored
MaxGrace == 2        \* delayed-teardown timers pending at once
MaxMessages == 2     \* transcript entries kept per session
MaxSources == 2      \* audio sources created (decoded segments)
MaxDecodes == 2      \* decodeAudioData promises pending at once
MaxTimers == 1       \* pending setTimeout callbacks of one kind and closure
ClockStart == 8      \* Date.now() when the App mounts
MaxClock == 11       \* Date.now() stops advancing here

\* ------------------------------------------------------- program constants
ReconnectionAttempts == 3

\* ------------------------------------------------------------------- state
VARIABLES
    \* socket-enhanced.ts, module level
    socket,               \* 0 = null, k > 0 = the k-th instance made by io()
    isSocketConnected,
    initCount,
    eventsRegistered,
    aiResponseHandler, aiAudioHandler, readyToListenHandler, errorHandler,
    \* the socket.io client object behind `socket` (library state)
    sockState,            \* "closed" | "connecting" | "connected" | "failed"
    attempts,             \* failed connection attempts in a row
    listeners,            \* times the listener block was registered on `socket`
    sendBuffer,           \* emits held by socket.io while not connected
    graceTimers,          \* pending setTimeout(..., 2000) of disconnect()
    overridden,           \* hooks whose handler was registered over another one
    \* App.tsx, React state
    messages, isSessionActive, isListening, isSpeaking, status, isConnected,
    autoInterruptEnabled,
    \* App.tsx, refs
    currentAudioSource,   \* currentAudioSourceRef.current: 0 = null, else a source
    userMediaStream,      \* userMediaStreamRef.current is a live stream
    isStartingRecognition,
    \* App.tsx, closures and timers
    chkAuto,              \* autoInterruptEnabled as captured by connectionChecker
    startTimers,          \* closures of pending setTimeout(..., 100) in restartSpeechRecognition
    delayTimers,          \* closures of pending timers that call restartSpeechRecognition
    statusTimers,         \* status texts of pending setTimeout(() => setStatus(..))
    micRequest,           \* getUserMedia() promises of startSession pending
    \* browser engines
    recEngine,            \* SpeechRecognition: "idle" | "starting" | "startingStop" | "running" | "stopping"
    decoding,             \* decodeAudioData promises pending
    playing,              \* audio sources started and not yet stopped or finished
    endedPending,         \* audio sources stopped whose 'ended' event is queued
    \* observation
    observed,             \* "status", "messages", "ready", "hooks": what this run tracks
    readySeen,            \* readyToListen reached the App since the last startSession()
    now,                  \* Date.now()
    out,                  \* what the last step did outside the state: <<[ev, arg]>>
    ret,                  \* return value of the last channel send: "none" | "true" | "false"
    ioCount,              \* io() calls so far
    teardowns,            \* teardowns of a socket so far
    nAcq, nRel,           \* initSocket() and disconnect() calls so far
    acqAfterRel           \* an initSocket() call followed a disconnect() call

chanVars == <<socket, isSocketConnected, initCount, eventsRegistered,
              aiResponseHandler, aiAudioHandler, readyToListenHandler, errorHandler,
              sockState, attempts, listeners, sendBuffer, graceTimers, overridden>>
histVars == <<ioCount, teardowns, nAcq, nRel, acqAfterRel>>
appVars == <<messages, isSessionActive, isListening, isSpeaking, status, isConnected,
             autoInterruptEnabled, currentAudioSource, userMediaStream,
             isStartingRecognition, chkAuto, startTimers, delayTimers, statusTimers,
             micRequest, recEngine, decoding, playing, endedPending, observed, readySeen,
             now>>
vars == <<chanVars, histVars, appVars, out, ret>>

\* ------------------------------------------------------------------- texts
\* Texts are sequences of characters.  What the recognition engine may hand
\* over as a final transcript, and what the backend may reply.
Transcripts == {<<>>, <<" ">>, <<"h", "i">>, <<" ", "h", "i", " ">>, <<"n", "o">>}

AiTexts == {<<"o", "k">>}

Texts == Transcripts \cup AiTexts

RECURSIVE TrimLeft(_)
TrimLeft(t) == IF t # <<>> /\ Head(t) = " " THEN TrimLeft(Tail(t)) ELSE t

RECURSIVE TrimRight(_)
TrimRight(t) ==
    IF t # <<>> /\ t[Len(t)] = " " THEN TrimRight(SubSeq(t, 1, Len(t) - 1)) ELSE t

\* String.prototype.trim()
Trim(t) == TrimRight(TrimLeft(t))

NoText == <<>>

\* An entry of the step log: an outbound event with its payload, or an inbound
\* event handed to handler h.
Ev(e, a) == [ev |-> e, arg |-> a, h |-> ""]

Dlv(e, hd) == [ev |-> e, arg |-> NoText, h |-> hd]

Evs(o) == {o[i].ev : i \in DOMAIN o}

\* How many entries of log o are event e.
RECURSIVE CountEv(_, _)
CountEv(o, e) ==
    IF o = <<>> THEN 0 ELSE (IF Head(o).ev = e THEN 1 ELSE 0) + CountEv(Tail(o), e)

\* ---------------------------------------------------------- channel manager
NoSocket == 0

Handlers == {"h1", "h2"}

\* socket.connected
SocketConnected == socket # NoSocket /\ sockState = "connected"

\* A send guard that looks at the socket only, not at the connection flag.
CanSendAnySocket == socket # NoSocket

\* The guard `!socket || !isSocketConnected` of every send, negated.
CanSend == socket # NoSocket /\ isSocketConnected

\* socket.emit(e, a): socket.io sends at once when connected and otherwise
\* holds the packet in its send buffer until the next connect.
EmitWire(e, a) == IF sockState = "connected" THEN <<Ev(e, a)>> ELSE <<>>

EmitBuffered(e, a) == IF sockState = "connected" THEN <<>> ELSE <<Ev(e, a)>>

\* if (errorHandler) errorHandler(msg)
ErrorCall == IF errorHandler # "null" THEN <<Dlv("error", errorHandler)>> ELSE <<>>

\* Each send as a value: what it returns, puts on the wire, leaves in the
\* send buffer, and reports to the error hook.
Sent(r, e, a) == [ret |-> r, wire |-> EmitWire(e, a), buf |-> EmitBuffered(e, a), err |-> <<>>]

NotSent(err) == [ret |-> FALSE, wire |-> <<>>, buf |-> <<>>, err |-> err]

socketStartSession ==
    IF ~CanSend THEN NotSent(ErrorCall) ELSE Sent(TRUE, "startSession", NoText)

sendSpeech(text) ==
    IF ~CanSend THEN NotSent(ErrorCall)
    ELSE IF Trim(text) = <<>> THEN NotSent(<<>>)
    ELSE Sent(TRUE, "userSpeech", Trim(text))

socketInterruptAI ==
    IF ~CanSend THEN NotSent(<<>>) ELSE Sent(TRUE, "interruptAI", NoText)

socketEndSession ==
    IF ~CanSend THEN NotSent(<<>>) ELSE Sent(TRUE, "endSession", NoText)

\* isConnected()
socketIsConnected == socket # NoSocket /\ isSocketConnected /\ sockState = "connected"

\* ------------------------------------------------------ App: small helpers
\* The state values a callback captured from the render that created it.
Closure == [sa : BOOLEAN, li : BOOLEAN, sp : BOOLEAN, au : BOOLEAN]

\* The first render: useState(false) four times.  The effects with an empty
\* dependency list (socket handlers, recognition callbacks) keep this closure.
mountClosure == [sa |-> FALSE, li |-> FALSE, sp |-> FALSE, au |-> FALSE]

\* The render in effect now.
liveClosure ==
    [sa |-> isSessionActive, li |-> isListening, sp |-> isSpeaking,
     au |-> autoInterruptEnabled]

NoTimers == [c \in Closure |-> 0]

\* status and messages are written by the handlers and read only by the
\* markup, so a specification may leave either untracked: `observed` names
\* the ones it tracks and never changes.
SetStatus(text) == status' = IF "status" \in observed THEN text ELSE status

Recovered == "Recovered. You can continue..."

StatusTexts == {Recovered, "Welcome to your therapy session"}

StatusTimerRoom(text) == "status" \in observed => statusTimers[text] < MaxTimers

\* setTimeout(() => setStatus(text), ..)
ScheduleStatus(text) ==
    statusTimers' = IF "status" \in observed
                    THEN [statusTimers EXCEPT ![text] = @ + 1]
                    ELSE statusTimers

MessagesRoom == "messages" \in observed => Len(messages) < MaxMessages

SetMessages(m) == messages' = IF "messages" \in observed THEN m ELSE messages

\* onError handler of the App, lines 100-107: an error status now,
\* 'Recovered' 2 s later.
AppOnErrorEnabled == StatusTimerRoom("Recovered. You can continue...")

\* An onError handler that sets the error status and schedules nothing.
AppOnErrorNoRecovery ==
    /\ SetStatus("Error: - Attempting recovery...")
    /\ UNCHANGED statusTimers

AppOnError ==
    /\ SetStatus("Error: - Attempting recovery...")
    /\ ScheduleStatus("Recovered. You can continue...")

\* if (errorHandler) errorHandler(..) inside a transport listener or a send,
\* as one conjunct of the step: the App's handler changes status, any other
\* handler is only logged.
CallErrorHandler ==
    IF errorHandler = "app"
    THEN /\ AppOnErrorEnabled
         /\ AppOnError
    ELSE UNCHANGED <<status, statusTimers>>

appRest == <<messages, isSessionActive, isListening, isSpeaking, isConnected,
             autoInterruptEnabled, currentAudioSource, userMediaStream,
             isStartingRecognition, chkAuto, startTimers, delayTimers,
             micRequest, recEngine, decoding, playing, endedPending, observed, readySeen,
             now>>

\* setState of one of the dependencies [isSessionActive, isListening,
\* isSpeaking] re-runs the connectionChecker effect, whose new interval
\* callback captures the autoInterruptEnabled of that render.
Rerender ==
    chkAuto' = IF <<isSessionActive', isListening', isSpeaking'>>
                    # <<isSessionActive, isListening, isSpeaking>>
               THEN autoInterruptEnabled'
               ELSE chkAuto

\* The closure of the interval callback and of the restartSpeechRecognition
\* it calls.
checkerClosure ==
    [sa |-> isSessionActive, li |-> isListening, sp |-> isSpeaking, au |-> chkAuto]

\* The part of restartSpeechRecognition's early return that reads the
\* closure: with such a closure the function returns at once, whenever called.
Inert(c) == ~c.sa \/ c.li \/ (c.sp /\ ~c.au)

\* The early return of restartSpeechRecognition, negated (recognitionRef.current
\* is set once the recognition effect has run).
RestartPasses(c) == ~Inert(c) /\ ~isStartingRecognition

\* restartSpeechRecognition as created by a render with state c: sets the
\* guard and schedules the start 100 ms later, the callback keeping c.
restartSpeechRecognition(c) ==
    IF RestartPasses(c)
    THEN /\ startTimers[c] < MaxTimers
         /\ isStartingRecognition' = TRUE
         /\ startTimers' = [startTimers EXCEPT ![c] = @ + 1]
    ELSE UNCHANGED <<isStartingRecognition, startTimers>>

\* setTimeout(() => restartSpeechRecognition(), ..) in a callback with
\* closure c.  A callback that can only return at once is not kept.
ScheduleRestart(c) ==
    IF Inert(c)
    THEN UNCHANGED delayTimers
    ELSE /\ delayTimers[c] < MaxTimers
         /\ delayTimers' = [delayTimers EXCEPT ![c] = @ + 1]

TimerLog == <<Ev("setTimeout(restartSpeechRecognition)", NoText)>>

\* The condition the 100 ms callback checks before recognition.start().
StartCheck(c) == c.sa /\ ~c.li /\ (~c.sp \/ c.au)

\* recognition.stop(): a running engine stops and will fire 'end'; an engine
\* still starting either fires 'start' first or ends without it.
RecAfterStop ==
    CASE recEngine = "running" -> {"stopping"}
      [] recEngine = "starting" -> {"startingStop", "stopping"}
      [] OTHER -> {recEngine}

\* source.stop() on currentAudioSourceRef.current: a playing source stops
\* and its 'ended' event is queued.
PlayingAfterStop(src) == playing \ {src}

EndedAfterStop(src) == IF src \in playing THEN endedPending \cup {src} ELSE endedPending

StopLog(src) == IF src # 0 THEN <<Ev("source.stop", NoText)>> ELSE <<>>

\* --------------------------------------------------- channel manager: steps
\* A listener block registered by every initSocket call that reaches it.
RegisterAlways(had) == had + 1

\* The listener block of initSocket, registered when !eventsRegistered.
RegisterListeners(had) == IF ~eventsRegistered THEN had + 1 ELSE had

initSocket ==
    /\ nAcq < MaxAcquire
    /\ initCount' = initCount + 1
    /\ IF SocketConnected
       THEN UNCHANGED <<socket, sockState, attempts, eventsRegistered, listeners, ioCount>>
       ELSE /\ IF socket = NoSocket
               THEN /\ socket' = ioCount + 1
                    /\ ioCount' = ioCount + 1
                    /\ sockState' = "connecting"
                    /\ attempts' = 0
                    /\ listeners' = RegisterListeners(0)
               ELSE /\ UNCHANGED <<socket, ioCount, sockState, attempts>>
                    /\ listeners' = RegisterListeners(listeners)
            /\ eventsRegistered' = TRUE
    /\ nAcq' = nAcq + 1
    /\ acqAfterRel' = (acqAfterRel \/ nRel > 0)
    /\ out' = <<>>
    /\ ret' = "none"
    /\ UNCHANGED <<isSocketConnected, aiResponseHandler, aiAudioHandler,
                   readyToListenHandler, errorHandler, sendBuffer, graceTimers,
                   overridden, teardowns, nRel, appVars>>

\* Math.max
Max(a, b) == IF a >= b THEN a ELSE b

\* A teardown that forgets to clear eventsRegistered.
TeardownKeepsRegistered ==
    /\ teardowns' = IF socket # NoSocket THEN teardowns + 1 ELSE teardowns
    /\ socket' = NoSocket
    /\ sockState' = "closed"
    /\ attempts' = 0
    /\ listeners' = 0
    /\ sendBuffer' = <<>>
    /\ isSocketConnected' = FALSE
    /\ UNCHANGED eventsRegistered
    /\ aiResponseHandler' = "null"
    /\ aiAudioHandler' = "null"
    /\ readyToListenHandler' = "null"
    /\ errorHandler' = "null"
    /\ overridden' = {}

\* socket.disconnect() on a live instance (a socket torn down counts once),
\* then socket = null; ... errorHandler = null.
Teardown ==
    /\ teardowns' = IF socket # NoSocket THEN teardowns + 1 ELSE teardowns
    /\ socket' = NoSocket
    /\ sockState' = "closed"
    /\ attempts' = 0
    /\ listeners' = 0
    /\ sendBuffer' = <<>>
    /\ isSocketConnected' = FALSE
    /\ eventsRegistered' = FALSE
    /\ aiResponseHandler' = "null"
    /\ aiAudioHandler' = "null"
    /\ readyToListenHandler' = "null"
    /\ errorHandler' = "null"
    /\ overridden' = {}

NoTeardown ==
    UNCHANGED <<socket, sockState, attempts, listeners, sendBuffer, isSocketConnected,
                eventsRegistered, aiResponseHandler, aiAudioHandler,
                readyToListenHandler, errorHandler, overridden, teardowns>>

\* The branch disconnect() takes once the count is zero; recent is
\* Date.now() - lastInitTime < 2000.
DelayTeardown(recent) == recent /\ socket # NoSocket /\ ~SocketConnected

disconnect(recent) ==
    /\ nRel < MaxAcquire
    /\ initCount' = Max(0, initCount - 1)
    /\ nRel' = nRel + 1
    /\ IF Max(0, initCount - 1) > 0
       THEN NoTeardown /\ UNCHANGED graceTimers
       ELSE IF DelayTeardown(recent)
            THEN /\ graceTimers < MaxGrace
                 /\ graceTimers' = graceTimers + 1
                 /\ NoTeardown
            ELSE Teardown /\ UNCHANGED graceTimers
    /\ out' = <<>>
    /\ ret' = "none"
    /\ UNCHANGED <<ioCount, nAcq, acqAfterRel, appVars>>

\* What the delayed callback checks before it tears the socket down.
GraceTeardownDue == socket # NoSocket /\ ~SocketConnected

\* The callback of setTimeout(..., 2000) in disconnect().
GraceTimerFires ==
    /\ graceTimers > 0
    /\ graceTimers' = graceTimers - 1
    /\ IF GraceTeardownDue THEN Teardown ELSE NoTeardown
    /\ out' = <<>>
    /\ ret' = "none"
    /\ UNCHANGED <<initCount, ioCount, nAcq, nRel, acqAfterRel, appVars>>

\* ------------------------------------------------ socket.io transport events
chanFrame == <<socket, initCount, eventsRegistered, aiResponseHandler, aiAudioHandler,
               readyToListenHandler, errorHandler, listeners, graceTimers, overridden>>

\* 'connect' (and, after a failed attempt, 'reconnect'): the held packets go out.
TransportConnect ==
    /\ socket # NoSocket
    /\ sockState = "connecting"
    /\ sockState' = "connected"
    /\ attempts' = 0
    /\ isSocketConnected' = IF listeners > 0 THEN TRUE ELSE isSocketConnected
    /\ out' = sendBuffer
    /\ sendBuffer' = <<>>
    /\ ret' = "none"
    /\ UNCHANGED <<chanFrame, histVars, appVars>>

\* 'disconnect': the transport dropped; socket.io starts to reconnect.
TransportDisconnect ==
    /\ socket # NoSocket
    /\ sockState = "connected"
    /\ sockState' = "connecting"
    /\ isSocketConnected' = IF listeners > 0 THEN FALSE ELSE isSocketConnected
    /\ out' = <<>>
    /\ ret' = "none"
    /\ UNCHANGED <<chanFrame, attempts, sendBuffer, histVars, appVars>>

\* 'connect_error': one attempt failed, another follows.
TransportConnectError ==
    /\ socket # NoSocket
    /\ sockState = "connecting"
    /\ attempts < ReconnectionAttempts
    /\ attempts' = attempts + 1
    /\ isSocketConnected' = IF listeners > 0 THEN FALSE ELSE isSocketConnected
    /\ IF listeners > 0
       THEN out' = ErrorCall /\ CallErrorHandler
       ELSE out' = <<>> /\ UNCHANGED <<status, statusTimers>>
    /\ ret' = "none"
    /\ UNCHANGED <<chanFrame, sockState, sendBuffer, histVars, appRest>>

\* 'reconnect_failed': the attempts are used up, socket.io gives up.
TransportReconnectFailed ==
    /\ socket # NoSocket
    /\ sockState = "connecting"
    /\ attempts = ReconnectionAttempts
    /\ sockState' = "failed"
    /\ isSocketConnected' = IF listeners > 0 THEN FALSE ELSE isSocketConnected
    /\ IF listeners > 0
       THEN out' = ErrorCall /\ CallErrorHandler
       ELSE out' = <<>> /\ UNCHANGED <<status, statusTimers>>
    /\ ret' = "none"
    /\ UNCHANGED <<chanFrame, attempts, sendBuffer, histVars, appRest>>

\* ------------------------------------------- channel manager: consumer calls
RetOf(r) == IF r.ret THEN "true" ELSE "false"

\* One send made by a consumer of the channel.
ChannelSend(r) ==
    /\ out' = r.err \o r.wire
    /\ sendBuffer' = sendBuffer \o r.buf
    /\ ret' = RetOf(r)
    /\ IF r.err # <<>> THEN CallErrorHandler ELSE UNCHANGED <<status, statusTimers>>
    /\ UNCHANGED <<chanFrame, sockState, attempts, isSocketConnected, histVars, appRest>>

CallStartSession == ChannelSend(socketStartSession)

CallSendSpeech(text) == ChannelSend(sendSpeech(text))

CallInterruptAI == ChannelSend(socketInterruptAI)

CallEndSession == ChannelSend(socketEndSession)

handlerFrame == <<socket, isSocketConnected, initCount, eventsRegistered, sockState,
                  attempts, listeners, sendBuffer, graceTimers, histVars, appVars>>

\* The hooks whose handler replaced another, once h is put in the slot of
\* kind that held `old` (tracked when `observed` names "hooks").
Override(kind, old, h) ==
    IF "hooks" \in observed /\ old \notin {"null", h}
    THEN overridden \cup {kind}
    ELSE overridden

onAiResponse(h) ==
    /\ aiResponseHandler' = h
    /\ overridden' = Override("aiResponse", aiResponseHandler, h)
    /\ out' = <<>> /\ ret' = "none"
    /\ UNCHANGED <<aiAudioHandler, readyToListenHandler, errorHandler, handlerFrame>>

onAiAudio(h) ==
    /\ aiAudioHandler' = h
    /\ overridden' = Override("aiAudio", aiAudioHandler, h)
    /\ out' = <<>> /\ ret' = "none"
    /\ UNCHANGED <<aiResponseHandler, readyToListenHandler, errorHandler, handlerFrame>>

onReadyToListen(h) ==
    /\ readyToListenHandler' = h
    /\ overridden' = Override("readyToListen", readyToListenHandler, h)
    /\ out' = <<>> /\ ret' = "none"
    /\ UNCHANGED <<aiResponseHandler, aiAudioHandler, errorHandler, handlerFrame>>

onError(h) ==
    /\ errorHandler' = h
    /\ overridden' = Override("error", errorHandler, h)
    /\ out' = <<>> /\ ret' = "none"
    /\ UNCHANGED <<aiResponseHandler, aiAudioHandler, readyToListenHandler, handlerFrame>>

\* ------------------------------------------------ inbound backend events
InboundKinds == {"aiResponse", "aiAudio", "readyToListen", "error"}

HandlerOf(kind) ==
    CASE kind = "aiResponse" -> aiResponseHandler
      [] kind = "aiAudio" -> aiAudioHandler
      [] kind = "readyToListen" -> readyToListenHandler
      [] kind = "error" -> errorHandler

\* Listeners that hand the event to every handler there is, not to the one
\* in the slot.
DeliveriesToAll(kind) ==
    IF HandlerOf(kind) = "null" THEN <<>>
    ELSE <<Dlv(kind, "h1"), Dlv(kind, "h2")>>

\* socket.on(kind, ..) runs once per registration of the listener block and
\* hands the event to the handler in the slot, if any.
Deliveries(kind) ==
    IF HandlerOf(kind) = "null" THEN <<>>
    ELSE [i \in 1..listeners |-> Dlv(kind, HandlerOf(kind))]

\* A backend event reaching a consumer other than the App.
Inbound(kind) ==
    /\ SocketConnected
    /\ HandlerOf(kind) # "app"
    /\ out' = Deliveries(kind)
    /\ ret' = "none"
    /\ UNCHANGED <<chanVars, histVars, appVars>>

\* ------------------------------------------------------------- initial state
\* socket-enhanced.ts as loaded: lines 4-14.
InitChannelVars ==
    /\ socket = NoSocket
    /\ isSocketConnected = FALSE
    /\ initCount = 0
    /\ eventsRegistered = FALSE
    /\ aiResponseHandler = "null"
    /\ aiAudioHandler = "null"
    /\ readyToListenHandler = "null"
    /\ errorHandler = "null"
    /\ sockState = "closed"
    /\ attempts = 0
    /\ listeners = 0
    /\ sendBuffer = <<>>
    /\ graceTimers = 0
    /\ overridden = {}

InitHist ==
    /\ ioCount = 0 /\ teardowns = 0 /\ nAcq = 0 /\ nRel = 0 /\ acqAfterRel = FALSE
    /\ out = <<>> /\ ret = "none"

\* The App component's first render: useState / useRef initial values.
InitAppVars(obs) ==
    /\ observed = obs
    /\ readySeen = FALSE
    /\ now = ClockStart
    /\ messages = <<>>
    /\ isSessionActive = FALSE
    /\ isListening = FALSE
    /\ isSpeaking = FALSE
    /\ status = "Welcome to your therapy session"
    /\ isConnected = FALSE
    /\ autoInterruptEnabled = FALSE
    /\ currentAudioSource = 0
    /\ userMediaStream = FALSE
    /\ isStartingRecognition = FALSE
    /\ chkAuto = FALSE
    /\ startTimers = NoTimers
    /\ delayTimers = NoTimers
    /\ statusTimers = [t \in StatusTexts |-> 0]
    /\ micRequest = 0
    /\ recEngine = "idle"
    /\ decoding = 0
    /\ playing = {}
    /\ endedPending = {}

\* -------------------------------------------- the channel manager on its own
InitChannel == InitChannelVars /\ InitHist /\ InitAppVars({})

NextChannel ==
    \/ initSocket
    \/ \E recent \in BOOLEAN : disconnect(recent)
    \/ GraceTimerFires
    \/ TransportConnect
    \/ TransportDisconnect
    \/ TransportConnectError
    \/ TransportReconnectFailed
    \/ CallStartSession
    \/ \E text \in Texts : CallSendSpeech(text)
    \/ CallInterruptAI
    \/ CallEndSession
    \/ \E h \in Handlers : onAiResponse(h)
    \/ \E h \in Handlers : onAiAudio(h)
    \/ \E h \in Handlers : onReadyToListen(h)
    \/ \E h \in Handlers : onError(h)
    \/ \E kind \in InboundKinds : Inbound(kind)

SpecChannel == InitChannel /\ [][NextChannel]_vars

\* The channel manager and its hooks, replaced handlers tracked: consumers
\* acquire, register handlers and release; the backend sends events.
InitHooks == InitChannelVars /\ InitHist /\ InitAppVars({"hooks"})

NextHooks ==
    \/ initSocket
    \/ \E recent \in BOOLEAN : disconnect(recent)
    \/ GraceTimerFires
    \/ TransportConnect
    \/ TransportDisconnect
    \/ \E h \in Handlers : onAiResponse(h)
    \/ \E h \in Handlers : onAiAudio(h)
    \/ \E h \in Handlers : onReadyToListen(h)
    \/ \E h \in Handlers : onError(h)
    \/ \E kind \in InboundKinds : Inbound(kind)

SpecHooks == InitHooks /\ [][NextHooks]_vars

\* -------------------------------------------------------- App: user actions
noSend == <<chanVars, histVars, observed, readySeen, now>>

sendFrame == <<chanFrame, sockState, attempts, isSocketConnected, histVars, observed,
              readySeen, now>>

\* The toggle button: setAutoInterruptEnabled(!autoInterruptEnabled).
ToggleAutoInterrupt ==
    /\ autoInterruptEnabled' = ~autoInterruptEnabled
    /\ out' = <<>> /\ ret' = "none"
    /\ UNCHANGED <<messages, isSessionActive, isListening, isSpeaking, status, isConnected,
                   currentAudioSource, userMediaStream, isStartingRecognition, chkAuto,
                   startTimers, delayTimers, statusTimers, micRequest, recEngine,
                   decoding, playing, endedPending, noSend>>

\* startSession up to its await: lines 384-389.
startSession ==
    /\ micRequest < MaxTimers
    /\ isSessionActive' = TRUE
    /\ SetStatus("Starting your therapeutic session...")
    /\ micRequest' = micRequest + 1
    /\ readySeen' = FALSE
    /\ out' = <<>> /\ ret' = "none"
    /\ UNCHANGED <<messages, isListening, isSpeaking, isConnected, autoInterruptEnabled,
                   currentAudioSource, userMediaStream, isStartingRecognition,
                   startTimers, delayTimers, statusTimers, recEngine, decoding, playing,
                   endedPending, chanVars, histVars, observed, now>>
    /\ Rerender

\* startSession after getUserMedia resolved: lines 398-428.
MicGranted ==
    /\ micRequest > 0
    /\ micRequest' = micRequest - 1
    /\ userMediaStream' = TRUE
    /\ IF socketIsConnected
       THEN /\ out' = socketStartSession.wire
            /\ sendBuffer' = sendBuffer \o socketStartSession.buf
            /\ UNCHANGED <<isSessionActive, status>>
       ELSE /\ SetStatus("Connection error - please refresh the page")
            /\ isSessionActive' = FALSE
            /\ out' = <<>>
            /\ UNCHANGED sendBuffer
    /\ ret' = "none"
    /\ UNCHANGED <<messages, isListening, isSpeaking, isConnected, autoInterruptEnabled,
                   currentAudioSource, isStartingRecognition, startTimers, delayTimers,
                   statusTimers, recEngine, decoding, playing, endedPending, sendFrame>>
    /\ Rerender

\* startSession after getUserMedia rejected: lines 430-434.
MicDenied ==
    /\ micRequest > 0
    /\ micRequest' = micRequest - 1
    /\ SetStatus("Please allow microphone access to continue")
    /\ isSessionActive' = FALSE
    /\ out' = <<>> /\ ret' = "none"
    /\ UNCHANGED <<messages, isListening, isSpeaking, isConnected, autoInterruptEnabled,
                   currentAudioSource, userMediaStream, isStartingRecognition,
                   startTimers, delayTimers, statusTimers, recEngine, decoding, playing,
                   endedPending, noSend>>
    /\ Rerender

\* The last step was a call of endSession().
EndedJustNow == out # <<>> /\ out[1].ev = "endSession()"

\* How the log marks a call of endSession that directly follows another.
Again == <<"a", "g", "a", "i", "n">>

EndCall == Ev("endSession()", IF EndedJustNow THEN Again ELSE NoText)

\* endSession: lines 438-483.  The log starts with the call itself.
endSession ==
    /\ StatusTimerRoom("Welcome to your therapy session")
    /\ isSessionActive' = FALSE
    /\ isListening' = FALSE
    /\ isSpeaking' = FALSE
    /\ SetStatus("Session ended. Take care of yourself.")
    /\ playing' = PlayingAfterStop(currentAudioSource)
    /\ endedPending' = EndedAfterStop(currentAudioSource)
    /\ currentAudioSource' = 0
    /\ recEngine' \in RecAfterStop
    /\ userMediaStream' = FALSE
    /\ SetMessages(<<>>)
    /\ ScheduleStatus("Welcome to your therapy session")
    /\ out' = <<EndCall>> \o socketEndSession.wire
                \o StopLog(currentAudioSource) \o socketInterruptAI.wire
                \o <<Ev("recognition.stop", NoText)>>
    /\ sendBuffer' = sendBuffer \o socketEndSession.buf \o socketInterruptAI.buf
    /\ ret' = "none"
    /\ UNCHANGED <<isConnected, autoInterruptEnabled, isStartingRecognition, startTimers,
                   delayTimers, micRequest, decoding, sendFrame>>
    /\ Rerender

\* handleInterrupt: lines 486-506; the 200 ms callback keeps the closure of
\* the render in which the button was clicked.
handleInterrupt ==
    /\ playing' = PlayingAfterStop(currentAudioSource)
    /\ endedPending' = EndedAfterStop(currentAudioSource)
    /\ currentAudioSource' = 0
    /\ isSpeaking' = FALSE
    /\ SetStatus("I'm listening...")
    /\ ScheduleRestart(liveClosure)
    /\ out' = StopLog(currentAudioSource) \o socketInterruptAI.wire \o TimerLog
    /\ sendBuffer' = sendBuffer \o socketInterruptAI.buf
    /\ ret' = "none"
    /\ UNCHANGED <<messages, isSessionActive, isListening, isConnected,
                   autoInterruptEnabled, userMediaStream, isStartingRecognition,
                   startTimers, statusTimers, micRequest, recEngine, decoding, sendFrame>>
    /\ Rerender

\* The buttons as rendered: lines 574-598 (the session button is disabled
\* while not connected; the interrupt button exists only while isSpeaking).
ClickStart == ~isSessionActive /\ isConnected /\ startSession

ClickEnd == isSessionActive /\ isConnected /\ endSession

ClickInterrupt == isSpeaking /\ handleInterrupt

\* ------------------------------------------------------------- App: timers
\* A pending setTimeout(() => restartSpeechRecognition(), 200 | 300 | 500 | 100).
DelayTimerFires(c) ==
    /\ delayTimers[c] > 0
    /\ delayTimers' = [delayTimers EXCEPT ![c] = @ - 1]
    /\ restartSpeechRecognition(c)
    /\ out' = <<>> /\ ret' = "none"
    /\ UNCHANGED <<messages, isSessionActive, isListening, isSpeaking, status, isConnected,
                   autoInterruptEnabled, currentAudioSource, userMediaStream, chkAuto,
                   statusTimers, micRequest, recEngine, decoding, playing, endedPending,
                   noSend>>

\* recognition.start(): an idle engine begins to start; any other throws
\* InvalidStateError, which the caller catches.
StartAccepted == recEngine = "idle"

\* The 100 ms callback of restartSpeechRecognition: lines 290-302.
StartTimerFires(c) ==
    /\ startTimers[c] > 0
    /\ startTimers' = [startTimers EXCEPT ![c] = @ - 1]
    /\ IF StartCheck(c)
       THEN /\ out' = <<Ev("recognition.start", NoText)>>
            /\ IF StartAccepted
               THEN recEngine' = "starting" /\ UNCHANGED isStartingRecognition
               ELSE isStartingRecognition' = FALSE /\ UNCHANGED recEngine
       ELSE /\ out' = <<>>
            /\ isStartingRecognition' = FALSE
            /\ UNCHANGED recEngine
    /\ ret' = "none"
    /\ UNCHANGED <<messages, isSessionActive, isListening, isSpeaking, status, isConnected,
                   autoInterruptEnabled, currentAudioSource, userMediaStream, chkAuto,
                   delayTimers, statusTimers, micRequest, decoding, playing,
                   endedPending, noSend>>

\* A pending setTimeout(() => setStatus(text), ..).
StatusTimerFires(text) ==
    /\ statusTimers[text] > 0
    /\ statusTimers' = [statusTimers EXCEPT ![text] = @ - 1]
    /\ SetStatus(text)
    /\ out' = <<>> /\ ret' = "none"
    /\ UNCHANGED <<appRest, chanVars, histVars>>

\* The setInterval callback of connectionChecker: lines 158-181.
connectionChecker ==
    /\ isConnected' = socketIsConnected
    /\ IF ~isSessionActive
       THEN SetStatus(IF socketIsConnected
                      THEN "Connected - Ready to start your session"
                      ELSE "Connecting...")
       ELSE UNCHANGED status
    /\ IF isSessionActive /\ ~isListening /\ ~isStartingRecognition
          /\ (chkAuto \/ ~isSpeaking)
       THEN restartSpeechRecognition(checkerClosure)
       ELSE UNCHANGED <<isStartingRecognition, startTimers>>
    /\ out' = <<>> /\ ret' = "none"
    /\ UNCHANGED <<messages, isSessionActive, isListening, isSpeaking,
                   autoInterruptEnabled, currentAudioSource, userMediaStream, chkAuto,
                   delayTimers, statusTimers, micRequest, recEngine, decoding, playing,
                   endedPending, noSend>>

\* ------------------------------------------- App: speech recognition callbacks
DigitChars == <<"0", "1", "2", "3", "4", "5", "6", "7", "8", "9">>

\* Number.prototype.toString(): the decimal digits of n.
RECURSIVE toString(_)
toString(n) ==
    IF n < 10 THEN <<DigitChars[n + 1]>>
    ELSE toString(n \div 10) \o <<DigitChars[(n % 10) + 1]>>

\* The Message addMessage builds, lines 271-276: both Date.now() calls of
\* the handler fall into the same step.
Message(text, sender) ==
    [id |-> toString(now), text |-> text, sender |-> sender, timestamp |-> now]

\* An addMessage that puts the new message first.
addMessageFirst(text, sender) == <<Message(text, sender)>> \o messages

\* addMessage: lines 270-278.
addMessage(text, sender) == Append(messages, Message(text, sender))

\* A millisecond passes (the system clock is taken never to be set back).
Tick ==
    /\ now < MaxClock
    /\ now' = now + 1
    /\ out' = <<>> /\ ret' = "none"
    /\ UNCHANGED <<messages, isSessionActive, isListening, isSpeaking, status, isConnected,
                   autoInterruptEnabled, currentAudioSource, userMediaStream,
                   isStartingRecognition, chkAuto, startTimers, delayTimers, statusTimers,
                   micRequest, recEngine, decoding, playing, endedPending, observed,
                   readySeen, chanVars, histVars>>

\* recognition.onstart: lines 204-208.
RecStarted ==
    /\ recEngine \in {"starting", "startingStop"}
    /\ recEngine' = IF recEngine = "starting" THEN "running" ELSE "stopping"
    /\ isListening' = TRUE
    /\ SetStatus("Listening...")
    /\ isStartingRecognition' = FALSE
    /\ out' = <<>> /\ ret' = "none"
    /\ UNCHANGED <<messages, isSessionActive, isSpeaking, isConnected,
                   autoInterruptEnabled, currentAudioSource, userMediaStream,
                   startTimers, delayTimers, statusTimers, micRequest, decoding, playing,
                   endedPending, noSend>>
    /\ Rerender

\* The barge-in test of recognition.onresult in a callback with closure c.
BargeIn(c) == c.au /\ c.sp

\* recognition.onresult, lines 210-238, as created by a render with state c,
\* for a final result whose text is not blank.
onresult(c, text) ==
    LET transcript == Trim(text)
        speech == sendSpeech(transcript)
        failed == speech.err # <<>> /\ errorHandler = "app"
    IN  /\ transcript # <<>>
        /\ MessagesRoom
        /\ SetMessages(addMessage(transcript, "user"))
        /\ IF BargeIn(c)
           THEN /\ playing' = PlayingAfterStop(currentAudioSource)
                /\ endedPending' = EndedAfterStop(currentAudioSource)
                /\ currentAudioSource' = 0
                /\ isSpeaking' = FALSE
                /\ out' = StopLog(currentAudioSource) \o socketInterruptAI.wire
                            \o speech.wire
                /\ sendBuffer' = sendBuffer \o socketInterruptAI.buf \o speech.buf
           ELSE /\ UNCHANGED <<playing, endedPending, currentAudioSource, isSpeaking>>
                /\ out' = speech.wire
                /\ sendBuffer' = sendBuffer \o speech.buf
        /\ IF failed
           THEN AppOnErrorEnabled /\ AppOnError
           ELSE /\ SetStatus(IF BargeIn(c) THEN "Interrupted. Processing..."
                             ELSE "Processing...")
                /\ UNCHANGED statusTimers
        /\ ret' = "none"
        /\ UNCHANGED <<isSessionActive, isListening, isConnected, autoInterruptEnabled,
                       userMediaStream, isStartingRecognition, startTimers, delayTimers,
                       micRequest, recEngine, decoding, sendFrame>>
        /\ Rerender

\* A final result from the running engine; the callback was created by the
\* recognition effect, which runs once, after the first render.
RecResult(text) ==
    /\ recEngine = "running"
    /\ onresult(mountClosure, text)

\* A final result that is blank after trim(): onresult does nothing.
RecBlankResult(text) ==
    /\ recEngine = "running"
    /\ Trim(text) = <<>>
    /\ out' = <<>> /\ ret' = "none"
    /\ UNCHANGED <<chanVars, histVars, appVars>>

RecErrors == {"not-allowed", "aborted", "no-speech"}

\* recognition.onerror, lines 240-256, with closure c.
onerror(c, error) ==
    /\ isListening' = FALSE
    /\ IF error = "not-allowed"
       THEN /\ SetStatus("Microphone access denied")
            /\ isSessionActive' = FALSE
            /\ UNCHANGED <<isStartingRecognition, startTimers>>
       ELSE /\ UNCHANGED <<status, isSessionActive>>
            /\ IF c.sa /\ (~c.sp \/ c.au) /\ ~isStartingRecognition
               THEN restartSpeechRecognition(c)
               ELSE UNCHANGED <<isStartingRecognition, startTimers>>

\* The engine reports an error and ends the recognition ('end' follows).
RecError(error) ==
    /\ recEngine \in {"starting", "startingStop", "running"}
    /\ recEngine' = "stopping"
    /\ onerror(mountClosure, error)
    /\ out' = <<>> /\ ret' = "none"
    /\ UNCHANGED <<messages, isSpeaking, isConnected, autoInterruptEnabled,
                   currentAudioSource, userMediaStream, delayTimers, statusTimers,
                   micRequest, decoding, playing, endedPending, noSend>>
    /\ Rerender

\* recognition.onend, lines 258-265, with closure c.
onend(c) ==
    /\ isListening' = FALSE
    /\ IF c.sa /\ (~c.sp \/ c.au)
       THEN restartSpeechRecognition(c)
       ELSE UNCHANGED <<isStartingRecognition, startTimers>>

\* The engine ends: after stop(), after an error, or by itself.
RecEnded ==
    /\ recEngine \in {"running", "stopping"}
    /\ recEngine' = "idle"
    /\ onend(mountClosure)
    /\ out' = <<>> /\ ret' = "none"
    /\ UNCHANGED <<messages, isSessionActive, isSpeaking, status, isConnected,
                   autoInterruptEnabled, currentAudioSource, userMediaStream,
                   delayTimers, statusTimers, micRequest, decoding, playing,
                   endedPending, noSend>>
    /\ Rerender

\* ------------------------------------------------------- App: audio playback
Sources == 1..MaxSources

\* Sources the audio engine or the App still refers to.
LiveSources == playing \cup endedPending \cup ({currentAudioSource} \ {0})

\* audioContext.createBufferSource(): a source not in use (the lowest one).
NewSource ==
    CHOOSE s \in Sources \ LiveSources : \A t \in Sources \ LiveSources : s <= t

Payloads == {"audio", "not base64"}

\* What playAudioFromBase64 stops before it decodes: lines 314-318.
StopBeforePlay == currentAudioSource

\* onAiAudio handler, lines 95-98: playAudioFromBase64 (lines 306-326, up to
\* the decodeAudioData call) and then setIsSpeaking(true).  atob() throws on
\* a payload that is not base64; the catch sets isSpeaking false, which the
\* handler's own setIsSpeaking(true) then overrides.
OnAiAudio(payload) ==
    /\ SocketConnected
    /\ aiAudioHandler = "app"
    /\ playing' = PlayingAfterStop(StopBeforePlay)
    /\ endedPending' = EndedAfterStop(StopBeforePlay)
    /\ currentAudioSource' = IF StopBeforePlay # 0 THEN 0 ELSE currentAudioSource
    /\ IF payload = "audio"
       THEN decoding < MaxDecodes /\ decoding' = decoding + 1
       ELSE UNCHANGED decoding
    /\ isSpeaking' = TRUE
    /\ out' = StopLog(StopBeforePlay)
    /\ ret' = "none"
    /\ UNCHANGED <<messages, isSessionActive, isListening, status, isConnected,
                   autoInterruptEnabled, userMediaStream, isStartingRecognition,
                   startTimers, delayTimers, statusTimers, micRequest, recEngine,
                   noSend>>
    /\ Rerender

\* What the decode callback stops before it starts the new source: nothing,
\* lines 327-371 never look at currentAudioSourceRef before overwriting it.
StopBeforeStart == 0

\* decodeAudioData resolved, lines 327-371, in the playAudioFromBase64 of the
\* render with state c: the new source becomes the current one and starts.
DecodeResolved(c) ==
    /\ decoding > 0
    /\ Sources \ LiveSources # {}
    /\ decoding' = decoding - 1
    /\ currentAudioSource' = NewSource
    /\ isSpeaking' = TRUE
    /\ SetStatus("Speaking...")
    /\ IF c.au THEN ScheduleRestart(c) ELSE UNCHANGED delayTimers
    /\ playing' = PlayingAfterStop(StopBeforeStart) \cup {NewSource}
    /\ endedPending' = EndedAfterStop(StopBeforeStart)
    /\ out' = StopLog(StopBeforeStart) \o <<Ev("source.start", NoText)>>
    /\ ret' = "none"
    /\ UNCHANGED <<messages, isSessionActive, isListening, isConnected,
                   autoInterruptEnabled, userMediaStream, isStartingRecognition,
                   startTimers, statusTimers, micRequest, recEngine, noSend>>
    /\ Rerender

\* decodeAudioData rejected: lines 372-375.
DecodeRejected ==
    /\ decoding > 0
    /\ decoding' = decoding - 1
    /\ isSpeaking' = FALSE
    /\ out' = <<>> /\ ret' = "none"
    /\ UNCHANGED <<messages, isSessionActive, isListening, status, isConnected,
                   autoInterruptEnabled, currentAudioSource, userMediaStream,
                   isStartingRecognition, startTimers, delayTimers, statusTimers,
                   micRequest, recEngine, playing, endedPending, noSend>>
    /\ Rerender

\* source.onended, lines 342-358, with closure c.
onended(c) ==
    /\ isSpeaking' = FALSE
    /\ currentAudioSource' = 0
    /\ SetStatus("AI finished speaking")
    /\ IF c.au
       THEN out' = <<>> /\ UNCHANGED delayTimers
       ELSE out' = TimerLog /\ ScheduleRestart(c)

endedFrame == <<messages, isSessionActive, isListening, isConnected,
                autoInterruptEnabled, userMediaStream, isStartingRecognition,
                startTimers, statusTimers, micRequest, recEngine, decoding, noSend>>

\* A source played to its end: the engine fires 'ended'.
SourceFinished(src) ==
    /\ src \in playing
    /\ playing' = playing \ {src}
    /\ onended(mountClosure)
    /\ ret' = "none"
    /\ UNCHANGED <<endedPending, endedFrame>>
    /\ Rerender

\* The 'ended' event of a source that was stopped with stop().
SourceStoppedEvent(src) ==
    /\ src \in endedPending
    /\ endedPending' = endedPending \ {src}
    /\ onended(mountClosure)
    /\ ret' = "none"
    /\ UNCHANGED <<playing, endedFrame>>
    /\ Rerender

\* ------------------------------------------------ App: other backend events
\* onAiResponse handler: lines 91-93.
OnAiResponse(text) ==
    /\ SocketConnected
    /\ aiResponseHandler = "app"
    /\ MessagesRoom
    /\ SetMessages(addMessage(text, "therapist"))
    /\ out' = <<>>
    /\ ret' = "none"
    /\ UNCHANGED <<isSessionActive, isListening, isSpeaking, status, isConnected,
                   autoInterruptEnabled, currentAudioSource, userMediaStream,
                   isStartingRecognition, chkAuto, startTimers, delayTimers,
                   statusTimers, micRequest, recEngine, decoding, playing,
                   endedPending, noSend>>

\* The branch of the onReadyToListen handler that stops and restarts capture.
ReadyRestarts(c) ==
    IF c.au THEN ~isStartingRecognition ELSE ~c.sp /\ ~isStartingRecognition

\* onReadyToListen handler, lines 109-147, with closure c.
onReadyToListenHandler(c) ==
    IF ReadyRestarts(c)
    THEN /\ SetStatus("Ready to listen")
         /\ recEngine' \in RecAfterStop
         /\ ScheduleRestart(c)
         /\ out' = <<Ev("recognition.stop", NoText)>> \o TimerLog
    ELSE /\ IF c.au THEN UNCHANGED status
            ELSE SetStatus(IF c.sp THEN "AI is speaking" ELSE "Ready to listen")
         /\ out' = <<>>
         /\ UNCHANGED <<recEngine, delayTimers>>

OnReadyToListen ==
    /\ SocketConnected
    /\ readyToListenHandler = "app"
    /\ onReadyToListenHandler(mountClosure)
    /\ readySeen' = ("ready" \in observed)
    /\ ret' = "none"
    /\ UNCHANGED <<messages, isSessionActive, isListening, isSpeaking, isConnected,
                   autoInterruptEnabled, currentAudioSource, userMediaStream,
                   isStartingRecognition, chkAuto, startTimers, statusTimers,
                   micRequest, decoding, playing, endedPending, chanVars, histVars,
                   observed, now>>

\* The backend's 'error' event reaching the App's onError handler.
OnServerError ==
    /\ SocketConnected
    /\ errorHandler = "app"
    /\ AppOnErrorEnabled
    /\ AppOnError
    /\ out' = <<>>
    /\ ret' = "none"
    /\ UNCHANGED <<appRest, chanVars, histVars>>

\* --------------------------------------------------------- the App, mounted
\* After the mount effects: initSocket() once (lines 77-87), the four
\* handlers registered (lines 90-147), the interval and the recognition
\* object created.
InitApp(obs) ==
    /\ socket = 1
    /\ isSocketConnected = FALSE
    /\ initCount = 1
    /\ eventsRegistered = TRUE
    /\ aiResponseHandler = "app"
    /\ aiAudioHandler = "app"
    /\ readyToListenHandler = "app"
    /\ errorHandler = "app"
    /\ sockState = "connecting"
    /\ attempts = 0
    /\ listeners = 1
    /\ sendBuffer = <<>>
    /\ graceTimers = 0
    /\ overridden = {}
    /\ ioCount = 1 /\ teardowns = 0 /\ nAcq = 1 /\ nRel = 0 /\ acqAfterRel = FALSE
    /\ out = <<>> /\ ret = "none"
    /\ InitAppVars(obs)

EngineStep ==
    \/ RecStarted
    \/ \E text \in Transcripts : RecResult(text)
    \/ \E text \in Transcripts : RecBlankResult(text)
    \/ \E error \in RecErrors : RecError(error)
    \/ RecEnded
    \/ DecodeResolved(mountClosure)
    \/ DecodeRejected
    \/ \E src \in Sources : SourceFinished(src)
    \/ \E src \in Sources : SourceStoppedEvent(src)

TimerStep ==
    \/ \E c \in Closure : DelayTimerFires(c)
    \/ \E c \in Closure : StartTimerFires(c)
    \/ connectionChecker

\* Everything but the user: timers, the engines, the backend's audio and
\* ready events, and the transport going up and down.
WorldStep ==
    \/ TimerStep
    \/ EngineStep
    \/ \E payload \in Payloads : OnAiAudio(payload)
    \/ OnReadyToListen
    \/ TransportConnect
    \/ TransportDisconnect
    \/ ToggleAutoInterrupt
    \/ MicGranted
    \/ MicDenied

\* The App as rendered: the handlers run when their buttons can be clicked.
Next == WorldStep \/ ClickStart \/ ClickEnd \/ ClickInterrupt

Spec == InitApp({}) /\ [][Next]_vars

\* startSession and endSession called by a presentation layer that does not
\* hide them behind the rendered button, in a world without AI audio.
NextApi ==
    \/ startSession
    \/ endSession
    \/ MicGranted
    \/ MicDenied
    \/ TransportConnect
    \/ TransportDisconnect
    \/ connectionChecker
    \/ \E c \in Closure : StartTimerFires(c)
    \/ RecStarted
    \/ \E text \in Transcripts : RecResult(text)
    \/ RecEnded

SpecApi == InitApp({}) /\ [][NextApi]_vars

\* -------------------------------------------- one session with its transcript
\* The utterances of a sample turn.
Hello == <<"h", "e", "l", "l", "o">>

HiThere == <<"H", "i", " ", "t", "h", "e", "r", "e">>

\* The App with the transcript tracked and barge-in left off (no restart
\* timer other than the 100 ms one is then ever kept), on a transport that
\* stays up once connected: the user says Hello, the backend answers HiThere
\* in text and in audio.
NextTurn ==
    \/ connectionChecker
    \/ \E c \in Closure : StartTimerFires(c)
    \/ RecStarted
    \/ RecResult(Hello)
    \/ \E error \in RecErrors : RecError(error)
    \/ RecEnded
    \/ DecodeResolved(mountClosure)
    \/ DecodeRejected
    \/ \E src \in Sources : SourceFinished(src)
    \/ \E src \in Sources : SourceStoppedEvent(src)
    \/ \E payload \in Payloads : OnAiAudio(payload)
    \/ OnAiResponse(HiThere)
    \/ OnReadyToListen
    \/ TransportConnect
    \/ MicGranted
    \/ MicDenied
    \/ ClickStart
    \/ ClickEnd
    \/ ClickInterrupt

SpecTurn == InitApp({"messages", "ready"}) /\ [][NextTurn]_vars

\* ------------------------------------------ starting a session, status tracked
\* The App around startSession with the status line tracked: no AI audio,
\* no recognition results.
NextMic ==
    \/ ClickStart
    \/ ClickEnd
    \/ MicGranted
    \/ MicDenied
    \/ TransportConnect
    \/ TransportDisconnect
    \/ connectionChecker
    \/ \E c \in Closure : StartTimerFires(c)
    \/ RecStarted
    \/ \E error \in RecErrors : RecError(error)
    \/ RecEnded
    \/ \E text \in StatusTexts : StatusTimerFires(text)

SpecMic == InitApp({"status"}) /\ [][NextMic]_vars

\* ------------------------------------------------ the transcript and the clock
\* The App with the transcript tracked and the clock running: one session
\* after another, the user's utterances and the backend's text replies.
NextTranscript ==
    \/ Tick
    \/ TransportConnect
    \/ connectionChecker
    \/ ClickStart
    \/ MicGranted
    \/ ClickEnd
    \/ \E c \in Closure : StartTimerFires(c)
    \/ RecStarted
    \/ RecResult(Hello)
    \/ RecEnded
    \/ OnAiResponse(HiThere)

SpecTranscript == InitApp({"messages"}) /\ [][NextTranscript]_vars

\* ------------------------------------------- the status line during playback
\* The App with the status line tracked and barge-in left off, on a
\* transport that stays up once connected: sessions, recognition, AI audio
\* and the backend's ready signal.
NextReady ==
    \/ ClickStart
    \/ ClickEnd
    \/ MicGranted
    \/ TransportConnect
    \/ connectionChecker
    \/ \E c \in Closure : StartTimerFires(c)
    \/ RecStarted
    \/ RecEnded
    \/ OnAiAudio("audio")
    \/ DecodeResolved(mountClosure)
    \/ \E src \in Sources : SourceFinished(src)
    \/ \E src \in Sources : SourceStoppedEvent(src)
    \/ OnReadyToListen
    \/ \E text \in StatusTexts : StatusTimerFires(text)

SpecReady == InitApp({"status"}) /\ [][NextReady]_vars

\* ------------------------------------------------ errors during a session
\* The App with the status line and the transcript tracked and barge-in left
\* off, on a transport that drops, fails to reconnect and reports backend
\* errors while a session runs: the user speaks, the AI answers in audio.
NextErrors ==
    \/ TransportConnect
    \/ TransportDisconnect
    \/ TransportConnectError
    \/ TransportReconnectFailed
    \/ OnServerError
    \/ StatusTimerFires(Recovered)
    \/ connectionChecker
    \/ ClickStart
    \/ MicGranted
    \/ \E c \in Closure : StartTimerFires(c)
    \/ RecStarted
    \/ RecResult(Hello)
    \/ OnAiAudio("audio")
    \/ DecodeResolved(mountClosure)

SpecErrors == InitApp({"status", "messages"}) /\ [][NextErrors]_vars

\* ------------------------------------------------- capture, fairly scheduled
\* The App while the AI is silent: sessions, the 2 s check, the restart
\* helper and the recognition engine.
NextListen ==
    \/ TransportConnect
    \/ TransportDisconnect
    \/ connectionChecker
    \/ ClickStart
    \/ MicGranted
    \/ ClickEnd
    \/ \E c \in Closure : StartTimerFires(c)
    \/ RecStarted
    \/ \E error \in RecErrors : RecError(error)
    \/ RecEnded

\* The interval keeps firing, a pending timeout fires, and the engine
\* delivers the 'start' and 'end' events it owes.
FairListen ==
    /\ WF_vars(connectionChecker)
    /\ \A c \in Closure : WF_vars(StartTimerFires(c))
    /\ WF_vars(RecStarted)
    /\ WF_vars(RecEnded)

SpecListen == InitApp({}) /\ [][NextListen]_vars /\ FairListen

\* ------------------------------------------------------------------ claims
\* The step called recognition.start().
StartInvoked == "recognition.start" \in Evs(out')

\* The engine has a recognition under way or a start in flight.
RecBusy == recEngine \in {"starting", "startingStop", "running"}

\* C1: recognition.start() is never invoked while a recognition is already
\* active or another start is in flight.
C1_SingleFlightStart ==
    [][StartInvoked => ~RecBusy]_vars

\* C2: at most one playback source is active in every reachable state.
C2_OnePlaybackSource == Cardinality(playing) <= 1

\* C3: while the AI is speaking with barge-in disabled, recognition.start()
\* is never invoked.
C3_NoStartWhileSpeaking ==
    [][StartInvoked => ~(isSpeaking /\ ~autoInterruptEnabled)]_vars

\* A finalized non-empty utterance reaches onresult while the session is
\* active, the AI is speaking, barge-in is enabled and the channel is up.
BargeInResult(text) ==
    /\ isSessionActive /\ isSpeaking /\ autoInterruptEnabled /\ SocketConnected
    /\ RecResult(text)

\* C4: such an utterance interrupts the AI (nothing plays any more, the AI is
\* no longer marked as speaking) and sends exactly one interruptAI.
C4_BargeInInterrupts ==
    [][\A text \in Transcripts :
          BargeInResult(text)
            => (/\ CountEv(out', "interruptAI") = 1
                /\ ~isSpeaking'
                /\ currentAudioSource' = 0
                /\ currentAudioSource \notin playing')]_vars

\* C5: with playback active, such an utterance stops the playback, sends
\* interruptAI and then userSpeech with the text, in this order and with
\* nothing else sent, in one step.
C5_InterruptionOrder ==
    [][\A text \in Transcripts :
          (BargeInResult(text) /\ currentAudioSource \in playing)
            => out' = <<Ev("source.stop", NoText), Ev("interruptAI", NoText),
                        Ev("userSpeech", Trim(text))>>]_vars

\* What endSession leaves behind: the terminal state of the claim.
TerminalState ==
    <<isSessionActive, isListening, isSpeaking, messages, userMediaStream,
      currentAudioSource>>

\* C10: endSession() called again right after endSession() leaves the same
\* terminal state and sends no further endSession event.
C10_IdempotentEnd ==
    [][(EndedJustNow /\ out' # <<>> /\ out'[1] = Ev("endSession()", Again))
         => (/\ TerminalState' = TerminalState
             /\ CountEv(out', "endSession") = 0)]_vars

\* C6: N acquire() calls followed by N release() calls (no acquire after a
\* release), once no grace timer is pending, have made exactly one
\* connection and torn down exactly one.
C6_OneEstablishmentOneTeardown ==
    (nAcq >= 1 /\ nRel = nAcq /\ ~acqAfterRel /\ graceTimers = 0)
        => (ioCount = 1 /\ teardowns = 1)

\* C7: once the last consumer has released and no grace timer is pending any
\* more, with no consumer holding the channel, the connection is closed.
C7_ClosedAfterGrace ==
    (nRel >= 1 /\ initCount = 0 /\ graceTimers = 0) => socket = NoSocket

\* C8: a socket is torn down only while the reference count is zero, so a
\* teardown never clears the socket and the handlers of a consumer that
\* acquired during the grace window.
C8_TeardownOnlyAtZero ==
    [][teardowns' > teardowns => initCount' = 0]_vars

\* C9: a send issued while the transport is not connected returns false,
\* puts nothing on the wire and nothing in socket.io's send buffer, and a
\* later connect therefore transmits nothing.
C9_SendWhileNotConnected ==
    /\ [][(ret' # "none" /\ ~SocketConnected)
            => (/\ ret' = "false"
                /\ \A i \in DOMAIN out' : out'[i].h # ""
                /\ sendBuffer' = <<>>)]_vars
    /\ [][(sockState # "connected" /\ sockState' = "connected") => out' = <<>>]_vars

\* A send returned false on a socket that exists and is still connecting.
C9_Witness ==
    /\ ret = "false"
    /\ socket # NoSocket
    /\ sockState = "connecting"
    /\ out = ErrorCall

\* The step is a call of endSession().
EndSessionStep == out' # <<>> /\ out'[1].ev = "endSession()"

\* C11: endSession() from any turn state leaves the session idle (not active,
\* not listening, not speaking), with capture stopped, nothing playing and no
\* source held, endSession sent when connected, the transcript empty and the
\* microphone released.
C11_EndFromAnyState ==
    [][EndSessionStep
         => (/\ ~isSessionActive' /\ ~isListening' /\ ~isSpeaking'
             /\ "recognition.stop" \in Evs(out')
             /\ recEngine' \notin {"starting", "running"}
             /\ currentAudioSource' = 0
             /\ playing' = {}
             /\ (SocketConnected => CountEv(out', "endSession") = 1)
             /\ messages' = <<>>
             /\ ~userMediaStream')]_vars

UserHello == Message(Hello, "user")

AiHiThere == Message(HiThere, "therapist")

\* C12: in a turn, the grant of the microphone on a connected channel sends
\* startSession; recognition.start() is invoked only after readyToListen has
\* arrived in the session; the final utterance Hello is sent as userSpeech;
\* the reply HiThere is appended after it, so the transcript is exactly
\* (user Hello, therapist HiThere); the audio reply adds nothing to it.
C12_EndToEndTurn ==
    /\ [][(MicGranted /\ socketIsConnected) => CountEv(out', "startSession") = 1]_vars
    /\ [][StartInvoked => readySeen]_vars
    /\ [][(RecResult(Hello) /\ SocketConnected)
            => (out' = <<Ev("userSpeech", Hello)>>
                /\ (messages = <<>> => messages' = <<UserHello>>))]_vars
    /\ [][(OnAiResponse(HiThere) /\ messages = <<UserHello>>)
            => messages' = <<UserHello, AiHiThere>>]_vars
    /\ [][(\E payload \in Payloads : OnAiAudio(payload)) => messages' = messages]_vars

\* C13: with barge-in disabled the session is never listening and speaking
\* at the same time.
C13_TurnExclusion == ~autoInterruptEnabled => ~(isListening /\ isSpeaking)

\* Something that clears isStartingRecognitionRef is still to come: the
\* 100 ms callback (when its check fails or start() throws) or onstart.
GuardCanClear ==
    \/ \E c \in Closure : startTimers[c] > 0
    \/ recEngine \in {"starting", "startingStop"}

\* C14: the 'starting' guard is never left set with nothing pending that
\* clears it, so it cannot block later starts forever.
C14_GuardNeverStuck == isStartingRecognition => GuardCanClear

\* C15: a segment that cannot be decoded, synchronously (atob throws) or
\* asynchronously (decodeAudioData rejects), leaves the App not speaking,
\* makes no further decode attempt and leaves the session as it was; after
\* the synchronous failure no source is held.
C15_DecodeFailureNonFatal ==
    /\ [][OnAiAudio("not base64")
            => (/\ ~isSpeaking'
                /\ currentAudioSource' = 0
                /\ decoding' = decoding
                /\ isSessionActive' = isSessionActive)]_vars
    /\ [][DecodeRejected
            => (/\ ~isSpeaking'
                /\ decoding' = decoding - 1
                /\ isSessionActive' = isSessionActive)]_vars

\* The last start attempt was refused and no new one has begun.
DeniedNow ==
    /\ status = "Please allow microphone access to continue"
    /\ ~isSessionActive

\* C16: when getUserMedia is refused the session attempt ends: the session is
\* idle again and the Start button live (no request pending), the step sends
\* nothing and takes no microphone stream; only the grant of the microphone
\* ever sends startSession; and after the refusal recognition.start() is not
\* invoked until the user starts again.
C16_MicDeniedEndsAttempt ==
    /\ [][MicDenied
            => (/\ ~isSessionActive'
                /\ micRequest' = 0
                /\ out' = <<>>
                /\ sendBuffer' = sendBuffer
                /\ userMediaStream' = userMediaStream)]_vars
    /\ [][CountEv(out', "startSession") > 0 => MicGranted]_vars
    /\ [][DeniedNow => ~StartInvoked]_vars

\* C17: whatever the number of initSocket() calls, at most one socket is
\* live (created and not torn down) and it is the one the module holds, its
\* listener block is registered exactly once, and an inbound event is handed
\* to the handler in the slot exactly once (to nobody if the slot is empty).
C17_OneSocketOneDelivery ==
    /\ [](ioCount - teardowns = IF socket = NoSocket THEN 0 ELSE 1)
    /\ [](socket # NoSocket => listeners = 1)
    /\ [][\A kind \in InboundKinds :
             Inbound(kind)
               => out' = IF HandlerOf(kind) = "null" THEN <<>>
                         ELSE <<Dlv(kind, HandlerOf(kind))>>]_vars

\* A second initSocket() came while the first connection attempt was in
\* flight, and an aiAudio event has then been delivered.
C17_Witness ==
    /\ nAcq = 2 /\ nRel = 0 /\ ioCount = 1
    /\ Len(out) = 1 /\ out[1].ev = "aiAudio" /\ out[1].h \in Handlers

\* The step is a call of initSocket().
AcquireStep == nAcq' = nAcq + 1

\* C18: when the reconnection attempts are used up the error hook is called
\* and the channel is failed, not connected; it stays so (or is torn down)
\* until initSocket() is called; and initSocket() on a failed channel starts
\* a new connection attempt.
C18_FailedUntilAcquire ==
    /\ [][TransportReconnectFailed
            => (/\ sockState' = "failed"
                /\ ~isSocketConnected'
                /\ out' = ErrorCall)]_vars
    /\ [][(sockState = "failed" /\ ~AcquireStep) => sockState' \in {"failed", "closed"}]_vars
    /\ [][(sockState = "failed" /\ AcquireStep) => sockState' = "connecting"]_vars

\* C19: a hook holds one handler: registering h puts h in the slot whatever
\* was there, and every delivery of an inbound event goes to the handler
\* then in the slot of its kind, so never to one that was replaced.
C19_LastHandlerOnly ==
    /\ [][\A h \in Handlers :
             /\ onAiResponse(h) => aiResponseHandler' = h
             /\ onAiAudio(h) => aiAudioHandler' = h
             /\ onReadyToListen(h) => readyToListenHandler' = h
             /\ onError(h) => errorHandler' = h]_vars
    /\ [](\A i \in DOMAIN out : out[i].h # "" => out[i].h = HandlerOf(out[i].ev))
    /\ [](Len(out) > 1 => \A i \in DOMAIN out : out[i].h = "")

\* h2 was registered for aiAudio over h1, and an aiAudio event has since
\* been delivered to h2.
C19_Witness ==
    /\ "aiAudio" \in overridden
    /\ aiAudioHandler = "h2"
    /\ out = <<Dlv("aiAudio", "h2")>>

\* C20: once no getUserMedia request is pending, the session is active
\* exactly when the App holds a microphone stream.
C20_MicrophoneOwnership == micRequest = 0 => (isSessionActive <=> userMediaStream)

\* C21: the ids of the utterances in the transcript are pairwise distinct.
C21_UniqueIds ==
    \A i, j \in DOMAIN messages : i # j => messages[i].id # messages[j].id

\* A finalized non-empty utterance reaches onresult while the session is
\* active, barge-in is disabled and the channel is up.
PlainResult(text) ==
    /\ isSessionActive /\ ~autoInterruptEnabled /\ socketIsConnected
    /\ RecResult(text)

\* C22: such an utterance is sent to the channel as userSpeech and capture
\* is stopped: recognition.stop() is called and the engine no longer runs.
C22_ResultStopsCapture ==
    [][\A text \in Transcripts :
          PlainResult(text)
            => (/\ Ev("userSpeech", Trim(text)) \in {out'[i] : i \in DOMAIN out'}
                /\ "recognition.stop" \in Evs(out')
                /\ recEngine' # "running")]_vars

\* The backend's ready signal reaches the App during an active session with
\* barge-in disabled while a segment is playing.
ReadyWhilePlaying ==
    /\ isSessionActive /\ ~autoInterruptEnabled
    /\ isSpeaking /\ currentAudioSource \in playing
    /\ OnReadyToListen

\* C23: such a ready signal leaves capture alone (no recognition.stop(), no
\* recognition.start(), no restart timer, the engine as it was) and sets the
\* status to "AI is speaking".
C23_ReadyWhilePlayingNoOp ==
    [][ReadyWhilePlaying
         => (/\ out' = <<>>
             /\ recEngine' = recEngine
             /\ delayTimers' = delayTimers
             /\ startTimers' = startTimers
             /\ status' = "AI is speaking")]_vars

\* The backend's ready signal reaches the App during an active session while
\* barge-in is enabled, or while it is disabled and nothing is playing.
ReadyToCapture ==
    /\ isSessionActive
    /\ autoInterruptEnabled \/ (~isSpeaking /\ playing = {})
    /\ OnReadyToListen

\* Capture is running or on its way: the engine is starting or running, or a
\* timer that will call recognition.start() or restartSpeechRecognition is
\* pending.
RestartInFlight ==
    \/ recEngine \in {"starting", "running"}
    \/ \E c \in Closure : startTimers[c] > 0 \/ delayTimers[c] > 0

\* C24: such a ready signal leaves capture running or a restart of it in
\* flight.
C24_ReadyRestartsCapture ==
    [][ReadyToCapture => RestartInFlight']_vars

\* A segment plays to its end during an active session with barge-in
\* disabled.
NaturalEnd ==
    /\ isSessionActive /\ ~autoInterruptEnabled
    /\ \E src \in Sources : SourceFinished(src)

\* C25: such an end marks the AI as no longer speaking and leaves capture
\* running or a restart of it in flight.
C25_NaturalEndRestartsCapture ==
    [][NaturalEnd => (~isSpeaking' /\ RestartInFlight')]_vars

\* The user clicks the interrupt button during an active session with the
\* channel up.
ManualInterrupt == isSessionActive /\ socketIsConnected /\ ClickInterrupt

\* C26: a manual interrupt stops the held playback source, sends exactly one
\* interruptAI, marks the AI as no longer speaking and, whatever the barge-in
\* setting, leaves capture running or a restart of it in flight.
C26_ManualInterrupt ==
    [][ManualInterrupt
         => (/\ currentAudioSource' = 0
             /\ currentAudioSource \notin playing'
             /\ CountEv(out', "interruptAI") = 1
             /\ ~isSpeaking'
             /\ RestartInFlight')]_vars

\* The 'ended' event of a segment that was stopped with stop() (by the
\* interrupt button, barge-in, a newer play or the end of the session).
StoppedSegmentEnds == \E src \in Sources : SourceStoppedEvent(src)

\* C27: the end of a stopped segment does not run the natural-completion
\* path: it schedules no restart of capture and leaves the speaking flag and
\* the source reference as they are.
C27_InterruptionIsNotCompletion ==
    [][StoppedSegmentEnds
         => (/\ out' = <<>>
             /\ delayTimers' = delayTimers
             /\ isSpeaking' = isSpeaking
             /\ currentAudioSource' = currentAudioSource)]_vars

\* The step restarted capture: it called recognition.start() on an engine
\* that had stopped, so the call was accepted.
CaptureRestarted == StartInvoked /\ StartAccepted

\* The restart policy: the session is active and the AI is not speaking or
\* barge-in is enabled.
RestartAllowed == isSessionActive /\ (~isSpeaking \/ autoInterruptEnabled)

\* C28: capture is restarted only when the restart policy allows it; in
\* particular never after the session has ended.
C28_RestartPolicy ==
    [][CaptureRestarted => RestartAllowed]_vars

\* The zero state of a turn: nothing plays or is held for playback, the AI
\* is not marked as speaking, capture is neither running nor marked as
\* running, and the transcript is empty.
ZeroTurnState ==
    /\ playing = {} /\ currentAudioSource = 0
    /\ ~isSpeaking
    /\ ~isListening /\ recEngine # "running"
    /\ messages = <<>>

\* C29: whenever the session is not active the turn state is the zero state.
C29_ZeroOutsideSession == ~isSessionActive => ZeroTurnState

\* A transport lifecycle event or a backend error reaches the listeners.
ErrorEvent == TransportConnectError \/ TransportReconnectFailed \/ OnServerError

ChannelEvent == TransportConnect \/ TransportDisconnect \/ ErrorEvent

\* What a channel event must leave alone: the session, the listening and
\* speaking flags, playback, capture and the transcript.
TurnState ==
    <<isSessionActive, isListening, isSpeaking, currentAudioSource, playing,
      endedPending, decoding, recEngine, isStartingRecognition, userMediaStream,
      messages>>

\* C30: a channel event leaves the turn state as it is and changes the
\* connection flag only as the event says; an error sets the error status
\* and schedules the 'Recovered' status, which the timer then sets.
C30_ChannelEventFrame ==
    /\ [][ChannelEvent => TurnState' = TurnState]_vars
    /\ [][TransportConnect => isSocketConnected']_vars
    /\ [][(TransportDisconnect \/ TransportConnectError \/ TransportReconnectFailed)
            => ~isSocketConnected']_vars
    /\ [][(TransportConnect \/ TransportDisconnect)
            => (status' = status /\ statusTimers' = statusTimers)]_vars
    /\ [][ErrorEvent
            => (/\ status' = "Error: - Attempting recovery..."
                /\ statusTimers'[Recovered] = statusTimers[Recovered] + 1)]_vars
    /\ [][StatusTimerFires(Recovered) => status' = Recovered]_vars

\* connect_error struck while a session was active, the AI was speaking and
\* the transcript held an utterance.
C30_Witness ==
    /\ isSessionActive /\ isSpeaking /\ currentAudioSource \in playing
    /\ messages # <<>>
    /\ sockState = "connecting" /\ attempts > 0
    /\ status = "Error: - Attempting recovery..."
    /\ statusTimers[Recovered] > 0

\* The step appended one utterance to the transcript and left the earlier
\* ones as they were.
Appended ==
    /\ Len(messages') = Len(messages) + 1
    /\ SubSeq(messages', 1, Len(messages)) = messages

\* C31: a step leaves the transcript alone, appends one utterance whose
\* timestamp is not below any earlier one, or is endSession clearing it; so
\* the timestamps of the transcript ascend.
C31_AppendOnlyAscending ==
    /\ [][\/ messages' = messages
          \/ /\ Appended
             /\ \A i \in DOMAIN messages :
                   messages[i].timestamp <= messages'[Len(messages')].timestamp
          \/ EndSessionStep /\ messages' = <<>>]_vars
    /\ [](\A i, j \in DOMAIN messages :
             i < j => messages[i].timestamp <= messages[j].timestamp)

\* The user's utterance and, some milliseconds later, the backend's reply
\* are in the transcript, in this order.
C31_Witness ==
    /\ Len(messages) = 2
    /\ messages[1].sender = "user" /\ messages[2].sender = "therapist"
    /\ messages[1].timestamp < messages[2].timestamp

\* The events that belong inside a session on the wire.
SessionEvents == {"userSpeech", "interruptAI"}

\* The last step sent endSession to the backend.
EndSessionSent == EndedJustNow /\ CountEv(out, "endSession") = 1

\* C32: once endSession has gone out, no userSpeech and no interruptAI goes
\* out before the next startSession: neither later in the same step nor in
\* the step that follows.
C32_SessionBracketing ==
    /\ [][\A i, j \in DOMAIN out' :
            (i < j /\ out'[i].ev = "endSession") => out'[j].ev \notin SessionEvents]_vars
    /\ [][EndSessionSent => Evs(out') \cap SessionEvents = {}]_vars

\* C33: a step that appends a user utterance to the transcript puts exactly
\* one userSpeech with the same text on the wire.
C33_ShownMeansSent ==
    [][LET last == messages'[Len(messages')]
       IN  (Appended /\ last.sender = "user")
             => (/\ CountEv(out', "userSpeech") = 1
                 /\ Ev("userSpeech", last.text) \in {out'[i] : i \in DOMAIN out'})]_vars

\* C34: every playing source is the one the App holds in
\* currentAudioSourceRef, with the speaking flag set; and the speaking flag
\* is set only while something plays or a decode is pending.
C34_PlayingIsHeld ==
    /\ \A src \in playing : currentAudioSource = src /\ isSpeaking
    /\ isSpeaking => (playing # {} \/ decoding > 0)

\* The session is active and the policy permits capture, but the App is not
\* listening.
WantsCapture == RestartAllowed /\ ~isListening

\* C35: whenever capture is permitted and not active, it becomes active
\* again (or stops being permitted).
C35_EventuallyListening == WantsCapture ~> (isListening \/ ~RestartAllowed)

\* The channel manager as loaded: no socket, not connected, no listeners
\* registered, the four handler slots empty.
ChannelReset ==
    /\ socket = NoSocket
    /\ ~isSocketConnected
    /\ ~eventsRegistered
    /\ aiResponseHandler = "null" /\ aiAudioHandler = "null"
    /\ readyToListenHandler = "null" /\ errorHandler = "null"

\* C36: a teardown leaves the channel manager reset; while there is no
\* socket every send returns false and sends nothing; and an initSocket()
\* call that finds no socket makes a new one, connecting, with the listener
\* block registered on it once.
C36_TeardownResets ==
    /\ [][teardowns' > teardowns => ChannelReset']_vars
    /\ [][(socket = NoSocket /\ ret' # "none")
            => (/\ ret' = "false"
                /\ \A i \in DOMAIN out' : out'[i].h # ""
                /\ sendBuffer' = <<>>)]_vars
    /\ [][(socket = NoSocket /\ AcquireStep)
            => (/\ socket' # NoSocket
                /\ ioCount' = ioCount + 1
                /\ sockState' = "connecting"
                /\ eventsRegistered'
                /\ listeners' = 1)]_vars

\* A socket was torn down and initSocket() has made the second one.
C36_Witness ==
    /\ teardowns = 1
    /\ ioCount = 2 /\ socket = 2
    /\ listeners = 1
    /\ sockState = "connecting"

====
